---- MODULE Spec2Model ----
(***************************************************************************)
(* The indexing control path of the Indexer control panel.                 *)
(*                                                                         *)
(* Two processes and two IPC pipes:                                        *)
(*   - the backend server (src/unnamed/part_004): the /api/index/* routes  *)
(*     and the handler of the worker's messages, which own STATE.indexer;  *)
(*   - the indexer worker (src/unnamed/part_005): its message handler and  *)
(*     the runIndexing control flows it starts.                            *)
(* The worker is a single-threaded event loop: between two awaits a flow   *)
(* runs alone, so every action below is one synchronous stretch of code,   *)
(* from the completion of an await to the next await.                      *)
(***************************************************************************)
EXTENDS Integers, Sequences, FiniteSets, TLC

\* ---------------------------------------------------------------- bounds
\* Accepted start and rescan requests in one behaviour.
MaxStarts == 2
\* Messages in flight in each IPC direction before the sender is held back.
MaxQueue == 1
\* Faults of the environment in one behaviour: a failed start-up of the
\* embedding process, a failed stat, a failed embedding request, a failed
\* snapshot write, an exit of the worker.
MaxFaults == 1
\* Snapshot files in the index directory.
MaxFiles == 2
\* Runs of white space and of other characters in a text to chunk.
MaxRuns == 3

\* ------------------------------------------------------------- constants
BATCH_SIZE == 10
\* processFile: the window and the overlap of the chunks; collectFiles: maxDepth.
CHUNK_SIZE == 500
CHUNK_OVERLAP == 100
MAX_DEPTH == 10
\* POST /api/search: the topK used when none is given, and its cap.
DEFAULT_TOPK == 20
TOPK_CAP == 100
\* Scores are held in hundredths; the minScore used when none is given (0.3).
Scale == 100
DEFAULT_MINSCORE == 30

Runs == 1..MaxStarts

\* What a behaviour is explored with: restarts without faults of the
\* environment, or a single run with faults and with the HTTP answers observed.
Restarts == [starts |-> MaxStarts, faults |-> 0, replies |-> FALSE, corpus |-> <<6, 5>>]
Single == [starts |-> 1, faults |-> MaxFaults, replies |-> TRUE, corpus |-> <<6, 5>>]

VARIABLES
  srvState,          \* server: STATE.indexer.state
  indexerWorker,     \* server: is there a worker process (indexerWorker # null)
  starts,            \* number of start commands sent so far (it also names the runs)
  reply,             \* the HTTP answer given in this step, "none" in other steps
  toWorker,          \* IPC server -> worker
  toServer,          \* IPC worker -> server
  State,             \* worker: STATE
  embeddingBuffer,   \* worker: embeddingBuffer
  embeddingsStore,   \* worker: embeddingsStore
  embeddingService,  \* worker: embeddingService (0 = null, else the process)
  embeddingEnabled,  \* worker: embeddingEnabled
  liveProcs,         \* embedding processes that are running
  procQ,             \* per embedding process: the request lines it has not answered
  runs,              \* the runIndexing control flows, by run
  snapshots,         \* the snapshot file each run has written (<<>> = none)
  stopBuf,           \* history: the pending buffer when stop was last received
  faults,            \* history: environment faults so far
  budget,            \* the budget of this behaviour: Restarts or Single
  indexDir,          \* INDEX_DIR: the index_*.json files, in the order of their names
  indexData,         \* server: indexData
  request,           \* the body of the last POST /api/search
  response,          \* the answer to it
  lastOp,            \* history: what the last step of the retrieval side was
  walkSel,           \* the selection of the walk
  walkRoots,         \* the roots still to walk
  walkFiles,         \* filePaths: the files yielded so far
  walkEntered,       \* history: the directories readdir was called on
  walkPc,            \* where the walk is: none, walking, done
  ckText,            \* processFile: text, as its runs of white space and of other characters
  ckI,               \* processFile: i, the start of the next window
  ckEnd,             \* processFile: end, the end of the last window taken
  ckChunks,          \* processFile: chunks, each by the part of the text it holds
  ckPc               \* where the chunk loop is: none, loop, done

vars == <<srvState, indexerWorker, starts, reply, toWorker, toServer, State,
          embeddingBuffer, embeddingsStore, embeddingService, embeddingEnabled,
          liveProcs, procQ, runs, snapshots, stopBuf, faults, budget,
          indexDir, indexData, request, response, lastOp,
          walkSel, walkRoots, walkFiles, walkEntered, walkPc,
          ckText, ckI, ckEnd, ckChunks, ckPc>>

ckVars == <<ckText, ckI, ckEnd, ckChunks, ckPc>>
walkVars == <<walkSel, walkRoots, walkFiles, walkEntered, walkPc>>
rtVars == <<indexDir, indexData, request, response, lastOp>>
srvVars == <<srvState, indexerWorker, starts, toWorker, budget>>
wkVars == <<State, embeddingBuffer, embeddingsStore, embeddingService,
            embeddingEnabled, liveProcs, procQ, runs, snapshots, stopBuf>>

\* The corpus the walk lists: file f yields ChunksOf[f] chunks.
ChunksOf == budget.corpus
Files == 1..Len(ChunksOf)

Min(a, b) == IF a < b THEN a ELSE b
Max(a, b) == IF a > b THEN a ELSE b
Range(s) == {s[i] : i \in 1..Len(s)}

\* ------------------------------------------------------------ worker state
STATE0 ==
  [running |-> FALSE, paused |-> FALSE, filesQueued |-> 0, filesProcessed |-> 0,
   filesFailed |-> 0, bytesProcessed |-> 0, chunksGenerated |-> 0,
   chunksEmbedded |-> 0, embeddingsPending |-> 0]

\* A runIndexing flow. pc is the await it is suspended at:
\*   "none"  not started          "init"   await initEmbeddingService()
\*   "collect" for await collectFiles   "sleep" await setTimeout(100)
\*   "file"  await processFile (stat/readFile)
\*   "embed" await embedChunks inside processFile
\*   "flushEmbed" await embedChunks inside the final flush loop
\*   "mkdir" / "write"  the awaits of saveIndexToDisk
\*   "done" returned through the tail, "failed" returned through catch,
\*   "dead" the worker process exited under it.
\* History, read by no action: stopped (stop was received while the flow was
\* active), storeAtStop (the length of embeddingsStore at the first such stop),
\* handled (how often processFile was called for each file), saveFailed,
\* resumed (a resume was received while the flow was active and paused),
\* pausedSeen (a pause was received while the flow was active), initFailed
\* (initEmbeddingService rejected), lastEmbed (how the latest embedChunks call
\* of the flow settled), lastFile (how the latest processFile call of the flow
\* went: "statFailed", "noText" or "chunked").
Run0 ==
  [pc |-> "none", idx |-> 0, batch |-> <<>>, req |-> 0, badRule |-> FALSE,
   content |-> <<>>, stopped |-> FALSE, storeAtStop |-> 0,
   handled |-> [f \in Files |-> 0], saveFailed |-> FALSE, resumed |-> FALSE,
   pausedSeen |-> FALSE, initFailed |-> FALSE, lastEmbed |-> "none",
   lastFile |-> "none"]

Active == {"init", "collect", "sleep", "file", "embed", "flushEmbed", "mkdir", "write"}
ActiveRuns == {r \in Runs : runs[r].pc \in Active}

Msg(t) == [type |-> t, state |-> ""]

\* The worker's mutable state as one value, threaded through the synchronous
\* stretches of code below.
Cur ==
  [S |-> State, buf |-> embeddingBuffer, store |-> embeddingsStore,
   svc |-> embeddingService, en |-> embeddingEnabled, live |-> liveProcs,
   q |-> procQ, runs |-> runs, out |-> toServer, snaps |-> snapshots]

Commit(c) ==
  /\ State' = c.S
  /\ embeddingBuffer' = c.buf
  /\ embeddingsStore' = c.store
  /\ embeddingService' = c.svc
  /\ embeddingEnabled' = c.en
  /\ liveProcs' = c.live
  /\ procQ' = c.q
  /\ runs' = c.runs
  /\ toServer' = c.out
  /\ snapshots' = c.snaps

\* ------------------------------------------------- worker: synchronous code

\* sendUpdate: one stats message; the reported phase is derived from the flags.
sendUpdate(c) ==
  [c EXCEPT !.out = Append(@,
     [type |-> "stats",
      state |-> IF c.S.paused THEN "paused"
                ELSE IF c.S.running THEN "embedding" ELSE "idle"])]

\* The locals of a flow that has returned.
Returned(c, r, how) ==
  [c EXCEPT !.runs[r].pc = how, !.runs[r].idx = 0, !.runs[r].batch = <<>>,
            !.runs[r].req = 0, !.runs[r].content = <<>>]

\* embeddingService.kill(): the process is gone, and with it what it had not
\* answered.
kill(c, p) == [c EXCEPT !.live = @ \ {p}, !.q[p] = <<>>]

\* runIndexing after the save: clean up the embedding service, report
\* completion if the run was not stopped, send the final update.
runIndexingTail(c, r) ==
  LET c1 == IF c.svc # 0
            THEN [kill(c, c.svc) EXCEPT !.svc = 0]
            ELSE c
      c2 == IF c1.S.running
            THEN [c1 EXCEPT !.S.running = FALSE, !.out = Append(@, Msg("complete"))]
            ELSE c1
  IN  sendUpdate(Returned(c2, r, "done"))

\* runIndexing's catch block.
runIndexingCatch(c, r) ==
  LET c1 == IF c.svc # 0
            THEN [kill(c, c.svc) EXCEPT !.svc = 0]
            ELSE c
      c2 == [c1 EXCEPT !.out = Append(@, Msg("error")), !.S.running = FALSE]
  IN  sendUpdate(Returned(c2, r, "failed"))

\* "if (embeddingsStore.length > 0) await saveIndexToDisk()": up to the await
\* of mkdir, or straight to the tail when there is nothing to save.
saveIndexToDiskStart(c, r) ==
  IF c.store # <<>>
  THEN [c EXCEPT !.runs[r].pc = "mkdir"]
  ELSE runIndexingTail(c, r)

\* processPendingEmbeddings up to its await of embedChunks. wait = FALSE when
\* it returns without awaiting (empty buffer, embeddings disabled, or
\* embedChunks rejecting at once because there is no service).
processPendingEmbeddings(c, r, at) ==
  IF c.buf = <<>> THEN [c |-> c, wait |-> FALSE]
  ELSE IF ~c.en
  THEN [c |-> [c EXCEPT !.buf = <<>>, !.S.embeddingsPending = 0], wait |-> FALSE]
  ELSE LET n == Min(BATCH_SIZE, Len(c.buf))
           c1 == [c EXCEPT !.buf = SubSeq(c.buf, n + 1, Len(c.buf))]
       IN  IF c.svc = 0
           THEN [c |-> c1, wait |-> FALSE]
           ELSE [c |-> [c1 EXCEPT !.runs[r].pc = at,
                                  !.runs[r].batch = SubSeq(c.buf, 1, n),
                                  !.runs[r].req = c.svc,
                                  !.q[c.svc] = IF c.svc \in c.live
                                               THEN Append(@, SubSeq(c.buf, 1, n))
                                               ELSE @],
                 wait |-> TRUE]

\* The identity of a chunk: the text a vector is computed from.
Chunk(rec) == [filePath |-> rec.filePath, chunkIndex |-> rec.chunkIndex, run |-> rec.run]

\* What embedChunks settles with: a rejection, or a response line whose
\* vectors were computed from the chunks "of", in that order (count is their
\* number).
Rejected == [ok |-> FALSE, of |-> <<>>]
Response(of) == [ok |-> TRUE, of |-> of]

\* processPendingEmbeddings after embedChunks settled: vector i of the
\* response is stored with chunk i of the batch, for every i that has both.
embedSettled(c, r, resp) ==
  LET b == c.runs[r].batch
      n == Min(Len(resp.of), Len(b))
      c1 == [c EXCEPT !.runs[r].batch = <<>>, !.runs[r].req = 0,
                      !.runs[r].lastEmbed = IF resp.ok THEN "resolved" ELSE "rejected"]
  IN  IF resp.ok
      THEN sendUpdate([c1 EXCEPT
             !.store = @ \o [i \in 1..n |->
                               [filePath |-> b[i].filePath, chunkIndex |-> b[i].chunkIndex,
                                run |-> b[i].run, vec |-> Chunk(resp.of[i])]],
             !.S.chunksEmbedded = @ + Len(resp.of),
             !.S.embeddingsPending = Max(0, @ - Len(resp.of))])
      ELSE c1

\* "while (embeddingBuffer.length > 0) await processPendingEmbeddings()",
\* then the save.
RECURSIVE flushLoop(_, _)
flushLoop(c, r) ==
  IF c.buf # <<>>
  THEN LET p == processPendingEmbeddings(c, r, "flushEmbed")
       IN  IF p.wait THEN p.c ELSE flushLoop(p.c, r)
  ELSE saveIndexToDiskStart(c, r)

\* A variant whose break on stop goes to the save without the final flush.
loopHeadBreakToSave(c, r) ==
  LET i == c.runs[r].idx
  IN  IF i > Len(ChunksOf) THEN flushLoop(c, r)
      ELSE IF c.S.paused /\ c.S.running THEN [c EXCEPT !.runs[r].pc = "sleep"]
      ELSE IF ~c.S.running THEN saveIndexToDiskStart(c, r)
      ELSE [c EXCEPT !.runs[r].pc = "file", !.runs[r].handled[i] = @ + 1]

\* The head of "for (const filePath of filePaths)": the pause wait, the stop
\* check, and the call of processFile up to its first await.
loopHead(c, r) ==
  LET i == c.runs[r].idx
  IN  IF i > Len(ChunksOf) THEN flushLoop(c, r)
      ELSE IF c.S.paused /\ c.S.running THEN [c EXCEPT !.runs[r].pc = "sleep"]
      ELSE IF ~c.S.running THEN flushLoop(c, r)
      ELSE [c EXCEPT !.runs[r].pc = "file", !.runs[r].handled[i] = @ + 1]

\* The rest of the loop body once processFile has returned.
afterFile(c, r, success) ==
  LET after == c.S.filesProcessed + c.S.filesFailed
      c1 == IF after = 1 \/ after % 50 = 0 \/ ~success THEN sendUpdate(c) ELSE c
  IN  loopHead([c1 EXCEPT !.runs[r].idx = @ + 1], r)

\* stat.size: the bytes of a file, at least one and some 400 for every chunk.
statSize(f) == Max(1, ChunksOf[f] * (CHUNK_SIZE - CHUNK_OVERLAP))

\* A variant in which a text that cannot be read fails the file.
processFileReadThrows(c, r, statOk, readOk) ==
  LET f == c.runs[r].idx
      k == IF readOk THEN ChunksOf[f] ELSE 0
      recs == [i \in 1..k |-> [filePath |-> f, chunkIndex |-> i - 1, run |-> r]]
  IN  IF ~statOk
      THEN afterFile([c EXCEPT !.S.filesFailed = @ + 1,
                               !.runs[r].lastFile = "statFailed"], r, FALSE)
      ELSE IF ~readOk
      THEN afterFile([c EXCEPT !.S.filesFailed = @ + 1,
                               !.runs[r].lastFile = "noText"], r, FALSE)
      ELSE IF k = 0
      THEN afterFile([c EXCEPT !.S.filesProcessed = @ + 1,
                               !.S.bytesProcessed = @ + statSize(f),
                               !.runs[r].lastFile = "noText"], r, TRUE)
      ELSE LET c1 == [c EXCEPT !.S.filesProcessed = @ + 1,
                               !.S.bytesProcessed = @ + statSize(f),
                               !.S.chunksGenerated = @ + k,
                               !.buf = @ \o recs,
                               !.S.embeddingsPending = @ + k,
                               !.runs[r].lastFile = "chunked"]
           IN  IF Len(c1.buf) >= BATCH_SIZE
               THEN LET p == processPendingEmbeddings(c1, r, "embed")
                    IN  IF p.wait THEN p.c ELSE afterFile(p.c, r, TRUE)
               ELSE afterFile(c1, r, TRUE)

\* processFile from the completion of stat/readFile on. statOk: whether
\* fs.promises.stat succeeded; readOk: whether readFile did (the text is ''
\* when it did not); k is the number of chunks of the text.
processFile(c, r, statOk, readOk) ==
  LET f == c.runs[r].idx
      k == IF readOk THEN ChunksOf[f] ELSE 0
      recs == [i \in 1..k |-> [filePath |-> f, chunkIndex |-> i - 1, run |-> r]]
  IN  IF ~statOk
      THEN afterFile([c EXCEPT !.S.filesFailed = @ + 1,
                               !.runs[r].lastFile = "statFailed"], r, FALSE)
      ELSE IF k = 0
      THEN afterFile([c EXCEPT !.S.filesProcessed = @ + 1,
                               !.S.bytesProcessed = @ + statSize(f),
                               !.runs[r].lastFile = "noText"], r, TRUE)
      ELSE LET c1 == [c EXCEPT !.S.filesProcessed = @ + 1,
                               !.S.bytesProcessed = @ + statSize(f),
                               !.S.chunksGenerated = @ + k,
                               !.buf = @ \o recs,
                               !.S.embeddingsPending = @ + k,
                               !.runs[r].lastFile = "chunked"]
           IN  IF Len(c1.buf) >= BATCH_SIZE
               THEN LET p == processPendingEmbeddings(c1, r, "embed")
                    IN  IF p.wait THEN p.c ELSE afterFile(p.c, r, TRUE)
               ELSE afterFile(c1, r, TRUE)

\* ------------------------------------------------------- worker: actions

Cmd(c) == [cmd |-> c, id |-> 0, badRule |-> FALSE]
NoReply == [req |-> "none", ok |-> TRUE]
Answer(q, b) == IF budget.replies THEN [req |-> q, ok |-> b] ELSE NoReply

\* The environment may fail once more; Fault(b) counts the fault if b.
MayFail == faults < budget.faults
Fault(b) == faults' = IF b THEN faults + 1 ELSE faults

\* The worker can run: it exists and its outgoing pipe has room.
WorkerTurn == indexerWorker /\ Len(toServer) < MaxQueue

\* process.on('message'): start, pause, resume, stop.
onMessage(c, m) ==
  IF m.cmd = "start"
  THEN IF ~c.S.running
       THEN [c EXCEPT !.S.filesProcessed = 0, !.S.filesFailed = 0,
                      !.S.bytesProcessed = 0,
                      !.S.chunksGenerated = 0, !.S.chunksEmbedded = 0,
                      !.S.paused = FALSE, !.S.running = TRUE,
                      !.svc = m.id, !.live = @ \cup {m.id},
                      !.runs[m.id] = [Run0 EXCEPT !.pc = "init", !.badRule = m.badRule]]
       ELSE c
  ELSE IF m.cmd = "pause"
  THEN sendUpdate([c EXCEPT !.S.paused = TRUE,
                            !.runs = [r \in Runs |->
                                       IF c.runs[r].pc \in Active
                                       THEN [c.runs[r] EXCEPT !.pausedSeen = TRUE]
                                       ELSE c.runs[r]]])
  ELSE IF m.cmd = "resume"
  THEN sendUpdate([c EXCEPT !.S.paused = FALSE,
                            !.runs = [r \in Runs |->
                                       IF c.runs[r].pc \in Active /\ c.S.paused
                                       THEN [c.runs[r] EXCEPT !.resumed = TRUE]
                                       ELSE c.runs[r]]])
  ELSE [c EXCEPT !.S.running = FALSE, !.S.paused = FALSE,
                 !.out = Append(@, Msg("stopped")),
                 !.runs = [r \in Runs |->
                            IF c.runs[r].pc \in Active /\ ~c.runs[r].stopped
                            THEN [c.runs[r] EXCEPT !.stopped = TRUE,
                                                   !.storeAtStop = Len(c.store)]
                            ELSE c.runs[r]]]

WorkerRecv ==
  /\ WorkerTurn
  /\ toWorker # <<>>
  /\ Commit(onMessage(Cur, Head(toWorker)))
  /\ toWorker' = Tail(toWorker)
  /\ stopBuf' = IF Head(toWorker).cmd = "stop" THEN Range(embeddingBuffer) ELSE stopBuf
  /\ reply' = NoReply
  /\ UNCHANGED <<srvState, indexerWorker, starts, faults, budget, rtVars, walkVars, ckVars>>

\* initEmbeddingService settles: the model is loaded, or the start-up times
\* out (which kills whatever embeddingService then names), or the process
\* exits early. Then the walk begins; its first exclude check throws on a
\* pattern that is no regular expression.
initSettled(c, r, how) ==
  LET c1 == IF how = "loaded" THEN [c EXCEPT !.en = TRUE]
            ELSE IF how = "timeout"
            THEN [(IF c.svc # 0 THEN kill(c, c.svc) ELSE c)
                    EXCEPT !.runs[r].initFailed = TRUE]
            ELSE [kill(c, r) EXCEPT !.runs[r].initFailed = TRUE]
  IN  IF c.runs[r].badRule
      THEN runIndexingCatch(c1, r)
      ELSE [c1 EXCEPT !.runs[r].pc = "collect"]

InitDone(r) ==
  /\ WorkerTurn
  /\ runs[r].pc = "init"
  /\ \E how \in {"loaded", "timeout", "exit"} :
       /\ how = "loaded" => r \in liveProcs
       /\ how # "loaded" => MayFail \/ r \notin liveProcs
       /\ Fault(how # "loaded" /\ r \in liveProcs)
       /\ Commit(initSettled(Cur, r, how))
  /\ reply' = NoReply
  /\ UNCHANGED <<srvVars, rtVars, walkVars, ckVars, stopBuf>>

\* The walk is complete: filesQueued, the first update, the first file.
collectDone(c, r) ==
  loopHead(sendUpdate([c EXCEPT !.S.filesQueued = Len(ChunksOf), !.runs[r].idx = 1]), r)

CollectDone(r) ==
  /\ WorkerTurn
  /\ runs[r].pc = "collect"
  /\ Commit(collectDone(Cur, r))
  /\ reply' = NoReply
  /\ UNCHANGED <<srvVars, rtVars, walkVars, ckVars, stopBuf, faults>>

\* The 100 ms timer of the pause wait fires.
SleepDone(r) ==
  /\ WorkerTurn
  /\ runs[r].pc = "sleep"
  /\ Commit(loopHead(Cur, r))
  /\ reply' = NoReply
  /\ UNCHANGED <<srvVars, rtVars, walkVars, ckVars, stopBuf, faults>>

FileDone(r) ==
  /\ WorkerTurn
  /\ runs[r].pc = "file"
  /\ \E statOk, readOk \in BOOLEAN :
       /\ statOk \/ readOk
       /\ ~(statOk /\ readOk) => MayFail
       /\ Fault(~(statOk /\ readOk))
       /\ Commit(processFile(Cur, r, statOk, readOk))
  /\ reply' = NoReply
  /\ UNCHANGED <<srvVars, rtVars, walkVars, ckVars, stopBuf>>

\* The continuation of a flow whose embedChunks call settled with resp: the
\* rest of processFile and of the loop body, or the rest of the flush loop.
embedContinue(c, r, resp) ==
  IF c.runs[r].pc = "embed"
  THEN afterFile(embedSettled(c, r, resp), r, TRUE)
  ELSE flushLoop(embedSettled(c, r, resp), r)

\* The flows that have a listener on the stdout of process p.
Listeners(p) == {r \in Runs : runs[r].pc \in {"embed", "flushEmbed"} /\ runs[r].req = p}

\* All orders in which the listeners of a set can have been attached.
Orders(S) == {o \in [1..Cardinality(S) -> S] : \A i, j \in DOMAIN o : i # j => o[i] # o[j]}

\* One line on stdout reaches every listener attached at that moment; their
\* continuations then run one after the other.
RECURSIVE deliver(_, _, _)
deliver(c, order, resp) ==
  IF order = <<>> THEN c
  ELSE deliver(embedContinue(c, Head(order), resp), Tail(order), resp)

\* The embedding process answers the oldest request it holds: all vectors, or
\* fewer vectors than chunks, or {error}. The line goes to whoever listens.
ServiceAnswer(p) ==
  /\ WorkerTurn
  /\ p \in liveProcs
  /\ procQ[p] # <<>>
  /\ \E kind \in {"full", "short", "error"} :
       /\ kind # "full" => MayFail
       /\ Fault(kind # "full")
       /\ LET asked == Head(procQ[p])
              resp == IF kind = "full" THEN Response(asked)
                      ELSE IF kind = "short" THEN Response(SubSeq(asked, 1, Len(asked) - 1))
                      ELSE Rejected
              c0 == [Cur EXCEPT !.q[p] = Tail(@)]
          IN  \E order \in Orders(Listeners(p)) : Commit(deliver(c0, order, resp))
  /\ reply' = NoReply
  /\ UNCHANGED <<srvVars, rtVars, walkVars, ckVars, stopBuf>>

\* embedChunks inside processFile settles without a response line: the 30 s
\* timer fires (the request stays with the process), or the stream has ended.
EmbedDone(r) ==
  /\ WorkerTurn
  /\ runs[r].pc = "embed"
  /\ runs[r].req \in liveProcs => MayFail
  /\ Fault(runs[r].req \in liveProcs)
  /\ Commit(embedContinue(Cur, r, Rejected))
  /\ reply' = NoReply
  /\ UNCHANGED <<srvVars, rtVars, walkVars, ckVars, stopBuf>>

\* The same inside the final flush loop.
FlushEmbedDone(r) ==
  /\ WorkerTurn
  /\ runs[r].pc = "flushEmbed"
  /\ runs[r].req \in liveProcs => MayFail
  /\ Fault(runs[r].req \in liveProcs)
  /\ Commit(embedContinue(Cur, r, Rejected))
  /\ reply' = NoReply
  /\ UNCHANGED <<srvVars, rtVars, walkVars, ckVars, stopBuf>>

\* saveIndexToDisk: mkdir is done, the store is serialised as it is now and
\* writeFile begins.
SaveMkdirDone(r) ==
  /\ WorkerTurn
  /\ runs[r].pc = "mkdir"
  /\ Commit([Cur EXCEPT !.runs[r].pc = "write", !.runs[r].content = embeddingsStore])
  /\ reply' = NoReply
  /\ UNCHANGED <<srvVars, rtVars, walkVars, ckVars, stopBuf, faults>>

\* saveIndexToDisk: writeFile settles (the stat of the written file, which
\* only sets onDiskBytes, is part of this step). On failure the catch reports
\* {type: 'error', message} and the run goes on to its tail.
saveSettled(c, r, ok) ==
  IF ok
  THEN runIndexingTail([c EXCEPT !.snaps[r] = c.runs[r].content], r)
  ELSE runIndexingTail([c EXCEPT !.out = Append(@, Msg("error")),
                                 !.runs[r].saveFailed = TRUE], r)

SaveWriteDone(r) ==
  /\ WorkerTurn
  /\ runs[r].pc = "write"
  /\ \E ok \in BOOLEAN :
       /\ ~ok => MayFail
       /\ Fault(~ok)
       /\ Commit(saveSettled(Cur, r, ok))
  /\ reply' = NoReply
  /\ UNCHANGED <<srvVars, rtVars, walkVars, ckVars, stopBuf>>

\* The index as the server holds it, and the search side before any request.
Null == [loaded |-> FALSE, embeddings |-> <<>>]
Loaded(e) == [loaded |-> TRUE, embeddings |-> e]
NoBody == [query |-> <<>>, mode |-> "keyword", topK |-> 0, minScore |-> <<>>, embed |-> FALSE]
NoResponse == [status |-> 0, chunks |-> <<>>, error |-> ""]

\* loadLatestIndex: the file whose name sorts last is read and parsed; a file
\* that does not parse throws, and the catch returns null.
loadLatestIndex(dir) ==
  IF dir = <<>> THEN Null
  ELSE IF dir[Len(dir)].torn THEN Null
  ELSE Loaded(dir[Len(dir)].embeddings)

InitWith(b) ==
  /\ budget = b
  /\ srvState = "idle"
  /\ indexerWorker = FALSE
  /\ starts = 0
  /\ reply = NoReply
  /\ toWorker = <<>>
  /\ toServer = <<>>
  /\ State = STATE0
  /\ embeddingBuffer = <<>>
  /\ embeddingsStore = <<>>
  /\ embeddingService = 0
  /\ embeddingEnabled = FALSE
  /\ liveProcs = {}
  /\ procQ = [p \in Runs |-> <<>>]
  /\ runs = [r \in Runs |-> Run0]
  /\ snapshots = [r \in Runs |-> <<>>]
  /\ stopBuf = {}
  /\ faults = 0
  /\ indexDir = <<>>
  /\ indexData = loadLatestIndex(<<>>)
  /\ request = NoBody
  /\ response = NoResponse
  /\ lastOp = "load"
  /\ walkSel = [include |-> <<>>, exclude |-> <<>>]
  /\ walkRoots = <<>>
  /\ walkFiles = <<>>
  /\ walkEntered = {}
  /\ walkPc = "none"
  /\ ckText = <<>>
  /\ ckI = 0
  /\ ckEnd = 0
  /\ ckChunks = <<>>
  /\ ckPc = "none"

Init == InitWith(Restarts) \/ InitWith(Single)
InitSingle == InitWith(Single)

\* ---------------------------------------------------------------- server

StartCmd(id, bad) == [cmd |-> "start", id |-> id, badRule |-> bad]

\* POST /api/index/start. bad: the selection in force holds an exclude pattern
\* that does not compile. A missing worker is spawned first.
ReqStart ==
  /\ IF srvState # "idle"
     THEN /\ reply' = Answer("start", FALSE)
          /\ UNCHANGED <<srvVars, faults>>
     ELSE /\ starts < budget.starts
          /\ Len(toWorker) < MaxQueue
          /\ \E bad \in BOOLEAN : toWorker' = Append(toWorker, StartCmd(starts + 1, bad))
          /\ UNCHANGED faults
          /\ indexerWorker' = TRUE
          /\ starts' = starts + 1
          /\ srvState' = "scanning"
          /\ reply' = Answer("start", TRUE)
          /\ UNCHANGED budget
  /\ UNCHANGED <<toServer, wkVars, rtVars, walkVars, ckVars>>

\* A variant of pause without the check of the phase.
ReqPauseUnguarded ==
  /\ Len(toWorker) < MaxQueue
  /\ toWorker' = IF indexerWorker THEN Append(toWorker, Cmd("pause")) ELSE toWorker
  /\ srvState' = "paused"
  /\ reply' = Answer("pause", TRUE)
  /\ UNCHANGED <<indexerWorker, starts>>
  /\ UNCHANGED <<toServer, wkVars, rtVars, walkVars, ckVars, faults, budget>>

\* POST /api/index/pause
ReqPause ==
  /\ IF srvState # "embedding"
     THEN /\ reply' = Answer("pause", FALSE)
          /\ UNCHANGED srvVars
     ELSE /\ Len(toWorker) < MaxQueue
          /\ toWorker' = IF indexerWorker THEN Append(toWorker, Cmd("pause")) ELSE toWorker
          /\ srvState' = "paused"
          /\ reply' = Answer("pause", TRUE)
          /\ UNCHANGED <<indexerWorker, starts>>
  /\ UNCHANGED <<toServer, wkVars, rtVars, walkVars, ckVars, faults, budget>>

\* POST /api/index/resume
ReqResume ==
  /\ IF srvState # "paused"
     THEN /\ reply' = Answer("resume", FALSE)
          /\ UNCHANGED srvVars
     ELSE /\ Len(toWorker) < MaxQueue
          /\ toWorker' = IF indexerWorker THEN Append(toWorker, Cmd("resume")) ELSE toWorker
          /\ srvState' = "embedding"
          /\ reply' = Answer("resume", TRUE)
          /\ UNCHANGED <<indexerWorker, starts>>
  /\ UNCHANGED <<toServer, wkVars, rtVars, walkVars, ckVars, faults, budget>>

\* POST /api/index/stop
ReqStop ==
  /\ IF srvState = "idle"
     THEN /\ reply' = Answer("stop", FALSE)
          /\ UNCHANGED srvVars
     ELSE /\ Len(toWorker) < MaxQueue
          /\ toWorker' = IF indexerWorker THEN Append(toWorker, Cmd("stop")) ELSE toWorker
          /\ srvState' = "idle"
          /\ reply' = Answer("stop", TRUE)
          /\ UNCHANGED <<indexerWorker, starts>>
  /\ UNCHANGED <<toServer, wkVars, rtVars, walkVars, ckVars, faults, budget>>

\* POST /api/index/rescan: stop if not idle, then start at once.
ReqRescan ==
  /\ starts < budget.starts
  /\ Len(toWorker) < MaxQueue
  /\ \E bad \in BOOLEAN :
       toWorker' = (IF srvState # "idle" /\ indexerWorker
                    THEN Append(toWorker, Cmd("stop")) ELSE toWorker)
                   \o <<StartCmd(starts + 1, bad)>>
  /\ indexerWorker' = TRUE
  /\ starts' = starts + 1
  /\ srvState' = "scanning"
  /\ reply' = Answer("rescan", TRUE)
  /\ UNCHANGED <<toServer, wkVars, rtVars, walkVars, ckVars, faults, budget>>

\* indexerWorker.on('message'): stats replaces STATE.indexer; complete, error
\* and stopped set the state to idle.
SrvRecv ==
  /\ toServer # <<>>
  /\ srvState' = IF Head(toServer).type = "stats" THEN Head(toServer).state ELSE "idle"
  /\ toServer' = Tail(toServer)
  /\ reply' = NoReply
  /\ UNCHANGED <<indexerWorker, starts, toWorker, wkVars, rtVars, walkVars, ckVars, faults, budget>>

\* The worker process exits; indexerWorker.on('exit') forgets it. Its flows
\* and its module state are gone, commands still in the pipe are lost, and a
\* later start spawns a fresh worker.
WorkerExit ==
  /\ indexerWorker
  /\ MayFail
  /\ Fault(TRUE)
  /\ indexerWorker' = FALSE
  /\ toWorker' = <<>>
  /\ State' = STATE0
  /\ embeddingBuffer' = <<>>
  /\ embeddingsStore' = <<>>
  /\ embeddingService' = 0
  /\ embeddingEnabled' = FALSE
  /\ runs' = [r \in Runs |-> IF runs[r].pc \in Active
                             THEN Returned(Cur, r, "dead").runs[r] ELSE runs[r]]
  /\ reply' = NoReply
  /\ UNCHANGED <<srvState, starts, toServer, liveProcs, procQ, snapshots, stopBuf, budget, rtVars, walkVars, ckVars>>

WorkerStep ==
  \/ WorkerRecv
  \/ \E r \in Runs : InitDone(r)
  \/ \E r \in Runs : CollectDone(r)
  \/ \E r \in Runs : SleepDone(r)
  \/ \E r \in Runs : FileDone(r)
  \/ \E r \in Runs : EmbedDone(r)
  \/ \E r \in Runs : FlushEmbedDone(r)
  \/ \E p \in Runs : ServiceAnswer(p)
  \/ \E r \in Runs : SaveMkdirDone(r)
  \/ \E r \in Runs : SaveWriteDone(r)

Request == ReqStart \/ ReqPause \/ ReqResume \/ ReqStop \/ ReqRescan

Next == Request \/ SrvRecv \/ WorkerStep \/ WorkerExit

Spec == Init /\ [][Next]_vars
SpecSingle == InitSingle /\ [][Next]_vars

\* The event loops run: a message in a pipe is delivered, an await that can
\* settle settles; and the operator does not leave a paused run paused.
Fairness ==
  /\ WF_vars(SrvRecv)
  /\ WF_vars(WorkerRecv)
  /\ \A r \in Runs :
       /\ WF_vars(InitDone(r)) /\ WF_vars(CollectDone(r)) /\ WF_vars(SleepDone(r))
       /\ WF_vars(FileDone(r)) /\ WF_vars(EmbedDone(r)) /\ WF_vars(FlushEmbedDone(r))
       /\ WF_vars(SaveMkdirDone(r)) /\ WF_vars(SaveWriteDone(r))
       /\ WF_vars(ServiceAnswer(r))
  /\ WF_vars(srvState = "paused" /\ (ReqResume \/ ReqStop))
SpecFair == SpecSingle /\ Fairness

\* ------------------------------------------------------------- retrieval

\* The records snapshots are made of. text: the words of the chunk, one
\* space between two of them; embedding: the stored vector.
ChunkA == [filePath |-> 1, chunkIndex |-> 0, text |-> <<"alpha", "beta">>, embedding |-> <<3, 4>>]
ChunkB == [filePath |-> 1, chunkIndex |-> 1, text |-> <<"alpha">>, embedding |-> <<4, 3>>]
ChunkC == [filePath |-> 2, chunkIndex |-> 0, text |-> <<"gamma">>, embedding |-> <<0, 5>>]
ChunkD == [filePath |-> 2, chunkIndex |-> 1, text |-> <<"Alpha", "beta">>, embedding |-> <<5, 0>>]

\* What saveIndexToDisk may have serialised (never an empty store).
Contents == {<<ChunkA, ChunkB, ChunkC>>, <<ChunkC, ChunkD>>, <<ChunkB>>}

\* The queries posed (words as in text; <<>> is the empty string) and the
\* vector the embedding service computes for a query.
Queries == {<<>>, <<"Alpha">>, <<"alpha", "beta">>}
QueryVec(text) == IF Len(text) = 1 THEN <<4, 3>> ELSE <<3, 4>>

\* The bodies of POST /api/search. topK 0 also stands for an absent topK
\* (body.topK || 20 treats both alike); minScore <<>> is an absent
\* filters.minScore. embed: whether the query's embedding can be computed.
Bodies ==
  [query : Queries, mode : {"keyword", "semantic", "hybrid"}, topK : 0..2,
   minScore : {<<>>, <<0>>, <<98>>}, embed : BOOLEAN]

RECURSIVE dot(_, _)
dot(a, b) == IF a = <<>> THEN 0 ELSE Head(a) * Head(b) + dot(Tail(a), Tail(b))

\* Math.sqrt on the squares the vectors in use produce.
sqrt(n) == CHOOSE k \in 0..n : k * k = n

cosineSimilarity(a, b) ==
  IF a = <<>> \/ b = <<>> \/ Len(a) # Len(b) THEN 0
  ELSE LET mag == sqrt(dot(a, a)) * sqrt(dot(b, b))
       IN  IF mag = 0 THEN 0 ELSE (dot(a, b) * Scale) \div mag

\* String.prototype.toLowerCase, word by word.
toLowerCase(text) ==
  [i \in 1..Len(text) |-> IF text[i] = "Alpha" THEN "alpha"
                          ELSE IF text[i] = "TMP" THEN "tmp" ELSE text[i]]

\* lowerText.includes(term)
includes(text, term) ==
  \E k \in 0..(Len(text) - Len(term)) : SubSeq(text, k + 1, k + Len(term)) = term

\* keywordScore: the query is split at each backslash followed by the letter
\* s (the pattern /\\s+/); no query in use holds one, so the only term is
\* the whole query.
keywordScore(text, query) ==
  IF text = <<>> \/ query = <<>> THEN 0
  ELSE LET lowerText == toLowerCase(text)
           terms == <<toLowerCase(query)>>
           matches == Cardinality({i \in 1..Len(terms) : includes(lowerText, terms[i])})
       IN  (matches * Scale) \div Len(terms)

chunkId(item) == <<item.filePath, item.chunkIndex>>
Scored(item, score) == [chunkId |-> chunkId(item), score |-> score]

\* Array.prototype.sort with (a, b) => b.score - a.score: descending, stable.
RECURSIVE sortDesc(_)
sortDesc(s) ==
  IF s = <<>> THEN <<>>
  ELSE LET front == sortDesc(SubSeq(s, 1, Len(s) - 1))
           x == s[Len(s)]
           n == Cardinality({i \in 1..Len(front) : front[i].score >= x.score})
       IN  SubSeq(front, 1, n) \o <<x>> \o SubSeq(front, n + 1, Len(front))

slice(s, k) == SubSeq(s, 1, Min(k, Len(s)))
filterMin(s, minScore) == SelectSeq(s, LAMBDA x : x.score >= minScore)

semanticSearch(data, queryEmbed, topK, minScore) ==
  IF ~data.loaded THEN <<>>
  ELSE slice(sortDesc(filterMin(
         [i \in 1..Len(data.embeddings) |->
            Scored(data.embeddings[i],
                   cosineSimilarity(queryEmbed, data.embeddings[i].embedding))],
         minScore)), topK)

keywordSearch(data, query, topK, minScore) ==
  IF ~data.loaded THEN <<>>
  ELSE slice(sortDesc(filterMin(
         [i \in 1..Len(data.embeddings) |->
            Scored(data.embeddings[i], keywordScore(data.embeddings[i].text, query))],
         minScore)), topK)

\* merged.set for one semantic result: an entry with the same chunkId keeps
\* its place and takes the mean of the two scores, a new one goes last.
mergeOne(m, r) ==
  IF \E i \in 1..Len(m) : m[i].chunkId = r.chunkId
  THEN [i \in 1..Len(m) |->
          IF m[i].chunkId = r.chunkId
          THEN [r EXCEPT !.score = (m[i].score + r.score) \div 2] ELSE m[i]]
  ELSE Append(m, r)

RECURSIVE merge(_, _)
merge(m, rs) == IF rs = <<>> THEN m ELSE merge(mergeOne(m, Head(rs)), Tail(rs))

\* hybridSearch: 0.7 x semantic + 0.3 x keyword for every record, then filter,
\* sort and slice. The route does not call it. Its scores are in thousandths.
hybridSearch(data, queryEmbed, query, topK, minScore) ==
  IF ~data.loaded THEN <<>>
  ELSE slice(sortDesc(SelectSeq(
         [i \in 1..Len(data.embeddings) |->
            Scored(data.embeddings[i],
                   7 * cosineSimilarity(queryEmbed, data.embeddings[i].embedding)
                   + 3 * keywordScore(data.embeddings[i].text, query))],
         LAMBDA x : x.score >= 10 * minScore)), topK)

\* const topK = Math.min(100, Math.max(1, body.topK || 20))
topKOf(body) == Min(TOPK_CAP, Max(1, IF body.topK = 0 THEN DEFAULT_TOPK ELSE body.topK))
\* const minScore = body.filters?.minScore ?? 0.3
minScoreOf(body) == IF body.minScore = <<>> THEN DEFAULT_MINSCORE ELSE body.minScore[1]

Ok(results) == [status |-> 200, chunks |-> results, error |-> ""]

\* A variant of the route without the check for a missing index.
searchUnguarded(data, body) ==
  Ok(keywordSearch(data, body.query, topKOf(body), minScoreOf(body)))

\* POST /api/search. getQueryEmbedding returns null for an empty query; its
\* promise rejects when the embedding cannot be computed, and the rejection
\* reaches the catch of the route (500).
search(data, body) ==
  LET topK == topKOf(body)
      minScore == minScoreOf(body)
      failed == [status |-> 500, chunks |-> <<>>, error |-> "Search failed"]
  IN  IF ~data.loaded \/ data.embeddings = <<>>
      THEN [status |-> 200, chunks |-> <<>>, error |-> "No index loaded"]
      ELSE IF body.mode = "semantic"
      THEN IF body.query = <<>> THEN Ok(keywordSearch(data, body.query, topK, minScore))
           ELSE IF ~body.embed THEN failed
           ELSE Ok(semanticSearch(data, QueryVec(body.query), topK, minScore))
      ELSE IF body.mode = "hybrid"
      THEN IF body.query # <<>> /\ ~body.embed THEN failed
           ELSE LET keyResults == keywordSearch(data, body.query, topK, minScore)
                    semResults == IF body.query = <<>> THEN <<>>
                                  ELSE semanticSearch(data, QueryVec(body.query), topK, minScore)
                IN  Ok(slice(sortDesc(merge(keyResults, semResults)), topK))
      ELSE Ok(keywordSearch(data, body.query, topK, minScore))

ixVars == <<srvState, indexerWorker, starts, reply, toWorker, toServer, State,
            embeddingBuffer, embeddingsStore, embeddingService, embeddingEnabled,
            liveProcs, procQ, runs, snapshots, stopBuf, faults, budget>>

\* saveIndexToDisk has written a file; its name sorts after the earlier ones.
SnapshotWritten ==
  /\ Len(indexDir) < MaxFiles
  /\ \E e \in Contents : indexDir' = Append(indexDir, [torn |-> FALSE, embeddings |-> e])
  /\ lastOp' = "write"
  /\ UNCHANGED <<indexData, request, response, ixVars, walkVars, ckVars>>

\* The worker goes down inside writeFile: the file exists under its final
\* name and holds a part of the document.
WriteInterrupted ==
  /\ Len(indexDir) < MaxFiles
  /\ indexDir' = Append(indexDir, [torn |-> TRUE, embeddings |-> <<>>])
  /\ lastOp' = "torn"
  /\ UNCHANGED <<indexData, request, response, ixVars, walkVars, ckVars>>

\* The server process starts: indexData = loadLatestIndex() at module load.
ServerStart ==
  /\ indexData' = loadLatestIndex(indexDir)
  /\ lastOp' = "load"
  /\ UNCHANGED <<indexDir, request, response, ixVars, walkVars, ckVars>>

Search ==
  /\ \E body \in Bodies :
       /\ request' = body
       /\ response' = search(indexData, body)
  /\ lastOp' = "search"
  /\ UNCHANGED <<indexDir, indexData, ixVars, walkVars, ckVars>>

\* The bodies of POST /api/reason: the chunk ids selected (<<9, 9>> names no
\* record of any snapshot) and whether the reasoning service answers.
ReasonBodies ==
  [chunkIds : {<<>>, << <<9, 9>> >>, << <<1, 1>> >>, << <<9, 9>>, <<2, 1>> >>,
              << <<2, 0>>, <<9, 9>>, <<1, 0>> >>},
   serviceOk : BOOLEAN]

\* indexData.embeddings.find(e => `chunk_${e.filePath}_${e.chunkIndex}` === id)
find(data, id) ==
  LET hits == {k \in 1..Len(data.embeddings) : chunkId(data.embeddings[k]) = id}
  IN  IF hits = {} THEN <<>>
      ELSE <<data.embeddings[CHOOSE k \in hits : \A j \in hits : k <= j]>>

\* chunkIds.map(id => item ? {chunkId, path, section, text} : null)
RECURSIVE mapFind(_, _)
mapFind(data, ids) ==
  IF ids = <<>> THEN <<>>
  ELSE LET item == find(data, Head(ids))
       IN  <<IF item = <<>> THEN <<>>
             ELSE <<[chunkId |-> Head(ids), text |-> item[1].text]>>>>
           \o mapFind(data, Tail(ids))

\* .filter(Boolean)
RECURSIVE filterBoolean(_)
filterBoolean(s) ==
  IF s = <<>> THEN <<>> ELSE Head(s) \o filterBoolean(Tail(s))

Local(status, answer) ==
  [status |-> status, answer |-> answer, citations |-> <<>>, called |-> FALSE, sent |-> <<>>]

\* A variant of the route that posts to the service whatever the lookup gave.
reasonAlwaysPosts(data, body) ==
  [status |-> IF body.serviceOk THEN 200 ELSE 500, answer |-> "relayed",
   citations |-> <<>>, called |-> TRUE, sent |-> filterBoolean(mapFind(data, body.chunkIds))]

\* POST /api/reason. called: the reasoning service was posted to; sent: the
\* chunks in that request. What the service answers is relayed as it is.
reason(data, body) ==
  IF ~data.loaded THEN Local(500, "No index loaded")
  ELSE IF body.chunkIds = <<>> THEN Local(200, "No chunks selected")
  ELSE LET chunks == filterBoolean(mapFind(data, body.chunkIds))
       IN  IF chunks = <<>> THEN Local(200, "Selected chunks not found in index")
           ELSE [status |-> IF body.serviceOk THEN 200 ELSE 500,
                 answer |-> IF body.serviceOk THEN "relayed" ELSE "Reasoning failed",
                 citations |-> <<>>, called |-> TRUE, sent |-> chunks]

Reason ==
  /\ \E body \in ReasonBodies :
       /\ request' = body
       /\ response' = reason(indexData, body)
  /\ lastOp' = "reason"
  /\ UNCHANGED <<indexDir, indexData, ixVars, walkVars, ckVars>>

NextRetrieval == SnapshotWritten \/ WriteInterrupted \/ ServerStart \/ Search \/ Reason

SpecRetrieval == InitSingle /\ [][NextRetrieval]_vars

\* ------------------------------------------------------------------ walk

\* A file system: its files in the order readdir lists them; a path is the
\* sequence of its components, the directories are the prefixes of the paths.
File(path, size) == [path |-> path, size |-> size]
Tree ==
  << File(<<"data", "a.txt">>, 400),
     File(<<"data", "tmp", "b.txt">>, 300),
     File(<<"data", "tmp", "sub", "c.md">>, 900),
     File(<<"data", "docs", "d.md">>, 40),
     File(<<"data", "e.bin">>, 700),
     File(<<"other", "f.txt">>, 520) >>

\* Rules. prefix: a pattern without wildcard, such as /data/tmp. ext: *.txt.
\* under: **/tmp/**.
Prefix(path) == [kind |-> "prefix", path |-> path, name |-> ""]
Ext(e) == [kind |-> "ext", path |-> <<>>, name |-> e]
Under(n) == [kind |-> "under", path |-> <<>>, name |-> n]

\* The selections a walk is started with.
Includes == {<<>>, <<Prefix(<<"data">>)>>, <<Ext(".txt")>>,
             <<Prefix(<<"data", "docs">>), Prefix(<<"data">>)>>,
             <<Prefix(<<"other">>), Prefix(<<"data", "TMP">>)>>,
             <<Prefix(<<"data", "tmp">>)>>}
Excludes == {<<>>, <<Prefix(<<"data", "tmp">>)>>, <<Under("tmp")>>, <<Ext(".md")>>,
             <<Prefix(<<"data">>)>>, <<Prefix(<<"data", "TMP", "sub">>), Ext(".txt")>>,
             <<Prefix(<<"data", "docs">>), Under("sub")>>}

\* path.extname, for the names in use.
extname(name) ==
  IF name \in {"a.txt", "b.txt", "f.txt"} THEN ".txt"
  ELSE IF name \in {"c.md", "d.md"} THEN ".md"
  ELSE IF name = "e.bin" THEN ".bin" ELSE ""

IsPrefix(a, b) == Len(a) <= Len(b) /\ SubSeq(b, 1, Len(a)) = a

\* matchesGlob. slash: the path ends with a slash (as the roots do).
\* Without wildcard: the path starts with the pattern followed by a slash,
\* case ignored. With **: the path holds the text between the wildcards,
\* here name followed by a slash. With *: the regular expression ^.*<ext>$, case ignored.
matchesGlob(path, slash, pattern) ==
  IF pattern.kind = "prefix"
  THEN /\ IsPrefix(toLowerCase(pattern.path), toLowerCase(path))
       /\ Len(path) > Len(pattern.path) \/ slash
  ELSE IF pattern.kind = "under"
  THEN \E i \in 1..Len(path) : path[i] = pattern.name /\ (i < Len(path) \/ slash)
  ELSE /\ ~slash
       /\ path # <<>>
       /\ extname(path[Len(path)]) = pattern.name

\* deriveRoots: what stands before the first * of each include rule, with one
\* slash at its end; C:/ for no rule. <<>> is the root of the volume.
RECURSIVE deriveRoots(_)
deriveRoots(rules) ==
  IF rules = <<>> THEN <<>>
  ELSE LET rest == deriveRoots(SubSeq(rules, 1, Len(rules) - 1))
           r == rules[Len(rules)]
           root == IF r.kind = "prefix" THEN r.path ELSE <<>>
       IN  IF \E i \in 1..Len(rest) : rest[i] = root THEN rest ELSE Append(rest, root)

roots(includeRules) == IF includeRules = <<>> THEN << <<>> >> ELSE deriveRoots(includeRules)

\* readdir: the names in a directory, in listing order, each once.
RECURSIVE readdir(_, _)
readdir(fs, dir) ==
  IF fs = <<>> THEN <<>>
  ELSE LET rest == readdir(SubSeq(fs, 1, Len(fs) - 1), dir)
           p == fs[Len(fs)].path
       IN  IF IsPrefix(dir, p) /\ Len(p) > Len(dir)
              /\ ~\E i \in 1..Len(rest) : rest[i] = p[Len(dir) + 1]
           THEN Append(rest, p[Len(dir) + 1]) ELSE rest

isFile(fs, path) == \E i \in 1..Len(fs) : fs[i].path = path

\* The file types collectFiles yields (of those in use).
Indexable == {".txt", ".md"}

\* A variant of the check that looks at the include rules only.
selectedIncludeOnly(path, selection) ==
  \/ selection.include = <<>>
  \/ \E i \in 1..Len(selection.include) : matchesGlob(path, FALSE, selection.include[i])

\* The check of one directory entry: matches and not excluded.
selected(path, selection) ==
  /\ \/ selection.include = <<>>
     \/ \E i \in 1..Len(selection.include) : matchesGlob(path, FALSE, selection.include[i])
  /\ ~\E i \in 1..Len(selection.exclude) : matchesGlob(path, FALSE, selection.exclude[i])

\* collectFiles: the files the generator yields for a folder, in order, and
\* the directories it reads on the way.
RECURSIVE collectFiles(_, _, _, _, _)
RECURSIVE walkEntries(_, _, _, _, _)
collectFiles(fs, folderPath, slash, depth, selection) ==
  IF depth > MAX_DEPTH THEN [files |-> <<>>, entered |-> {}]
  ELSE IF \E i \in 1..Len(selection.exclude) :
            matchesGlob(folderPath, slash, selection.exclude[i])
  THEN [files |-> <<>>, entered |-> {}]
  ELSE LET below == walkEntries(fs, folderPath, readdir(fs, folderPath), depth, selection)
       IN  [below EXCEPT !.entered = @ \cup {folderPath}]

\* The loop over the entries of a directory.
walkEntries(fs, folderPath, entries, depth, selection) ==
  IF entries = <<>> THEN [files |-> <<>>, entered |-> {}]
  ELSE LET fullPath == Append(folderPath, Head(entries))
           rest == walkEntries(fs, folderPath, Tail(entries), depth, selection)
           here == IF ~selected(fullPath, selection) THEN [files |-> <<>>, entered |-> {}]
                   ELSE IF isFile(fs, fullPath)
                   THEN [files |-> IF extname(Head(entries)) \in Indexable
                                   THEN <<fullPath>> ELSE <<>>,
                         entered |-> {}]
                   ELSE collectFiles(fs, fullPath, FALSE, depth + 1, selection)
       IN  [files |-> here.files \o rest.files, entered |-> here.entered \cup rest.entered]

\* processFile: the number of chunks of a text of n characters that neither
\* begins nor ends with white space, from offset i on.
RECURSIVE chunksFrom(_, _)
chunksFrom(n, i) ==
  IF i >= n THEN 0
  ELSE LET end == Min(i + CHUNK_SIZE, n)
           kept == IF end - i > 50 THEN 1 ELSE 0
       IN  IF end >= n THEN kept ELSE kept + chunksFrom(n, i + CHUNK_SIZE - CHUNK_OVERLAP)

\* The text types processFile reads (of those in use), and the chunks of a file.
TextTypes == {".txt", ".md"}
chunksOfFile(fs, path) ==
  LET f == fs[CHOOSE i \in 1..Len(fs) : fs[i].path = path]
  IN  IF extname(path[Len(path)]) \in TextTypes THEN chunksFrom(f.size, 0) ELSE 0

\* The whole collection of runIndexing: every root in turn.
RECURSIVE walkAll(_, _, _)
walkAll(fs, rootSeq, selection) ==
  IF rootSeq = <<>> THEN <<>>
  ELSE collectFiles(fs, Head(rootSeq), TRUE, 0, selection).files
       \o walkAll(fs, Tail(rootSeq), selection)

\* The corpus of a run: the chunks of each file the walk lists.
corpusOf(fs, selection) ==
  LET files == walkAll(fs, roots(selection.include), selection)
  IN  [i \in 1..Len(files) |-> chunksOfFile(fs, files[i])]

\* The scenario of one file to walk and one to leave out.
Tree30 == <<File(<<"data", "a.txt">>, 400), File(<<"data", "tmp", "b.txt">>, 300)>>
Sel30 == [include |-> <<Prefix(<<"data">>)>>, exclude |-> <<Prefix(<<"data", "tmp">>)>>]
Scenario30 ==
  [starts |-> MaxStarts, faults |-> 0, replies |-> FALSE, corpus |-> corpusOf(Tree30, Sel30)]

\* runIndexing starts to collect: the roots are derived from the selection.
WalkBegin ==
  /\ walkPc \in {"none", "done"}
  /\ \E inc \in Includes, exc \in Excludes :
       /\ walkSel' = [include |-> inc, exclude |-> exc]
       /\ walkRoots' = roots(inc)
  /\ walkFiles' = <<>>
  /\ walkEntered' = {}
  /\ walkPc' = "walking"
  /\ UNCHANGED <<ixVars, rtVars, ckVars>>

\* for (const root of roots): the walk of one root.
WalkRoot ==
  /\ walkPc = "walking"
  /\ walkRoots # <<>>
  /\ LET w == collectFiles(Tree, Head(walkRoots), TRUE, 0, walkSel)
     IN  /\ walkFiles' = walkFiles \o w.files
         /\ walkEntered' = walkEntered \cup w.entered
  /\ walkRoots' = Tail(walkRoots)
  /\ UNCHANGED <<walkSel, walkPc, ixVars, rtVars, ckVars>>

\* STATE.filesQueued = filePaths.length
WalkEnd ==
  /\ walkPc = "walking"
  /\ walkRoots = <<>>
  /\ walkPc' = "done"
  /\ UNCHANGED <<walkSel, walkRoots, walkFiles, walkEntered, ixVars, rtVars, ckVars>>

NextWalk == WalkBegin \/ WalkRoot \/ WalkEnd

SpecWalk == InitSingle /\ [][NextWalk]_vars

\* A single run with faults over the default corpus, or restarts without
\* faults over the corpus of the scenario.
SpecScenario == (InitWith(Single) \/ InitWith(Scenario30)) /\ [][Next]_vars

\* A single run without faults over a file of 20 chunks (a text of some 8000
\* characters) followed by a file of one chunk.
Large == [starts |-> 1, faults |-> 0, replies |-> TRUE, corpus |-> <<20, 1>>]
SpecLarge == (InitWith(Single) \/ InitWith(Large)) /\ [][Next]_vars

\* --------------------------------------------------------------- chunker

\* Texts: runs of white space (ws) and of other characters, by length.
Run(ws, len) == [ws |-> ws, len |-> len]
RunLens == {40, 60, 400, 470}
Texts ==
  UNION {[1..n -> [ws : BOOLEAN, len : RunLens]] : n \in 0..MaxRuns}

RECURSIVE length(_)
length(text) == IF text = <<>> THEN 0 ELSE Head(text).len + length(Tail(text))

\* The offset of the first character in [from, to) that is no white space,
\* or to when there is none; base is the offset where the runs of text begin.
RECURSIVE firstSolid(_, _, _, _)
firstSolid(text, base, from, to) ==
  IF text = <<>> \/ base >= to THEN to
  ELSE IF ~Head(text).ws /\ base + Head(text).len > from THEN Max(base, from)
  ELSE firstSolid(Tail(text), base + Head(text).len, from, to)

\* The offset after the last character in [from, to) that is no white space.
RECURSIVE lastSolid(_, _, _, _, _)
lastSolid(text, base, from, to, best) ==
  IF text = <<>> \/ base >= to THEN best
  ELSE lastSolid(Tail(text), base + Head(text).len, from, to,
                 IF ~Head(text).ws /\ base + Head(text).len > from
                 THEN Min(base + Head(text).len, to) ELSE best)

\* text.substring(from, to).trim(), as the part of the text that is left:
\* from the first to the last character that is no white space.
trim(text, from, to) ==
  IF firstSolid(text, 0, from, to) = to THEN [from |-> from, to |-> from]
  ELSE [from |-> firstSolid(text, 0, from, to),
        to |-> lastSolid(text, 0, from, to, from)]

\* A variant of the loop body that takes the window as it is.
windowUntrimmed(text, i) ==
  LET end == Min(i + CHUNK_SIZE, length(text))
  IN  [end |-> end, keep |-> end - i > 50, chunk |-> [from |-> i, to |-> end]]

\* One pass of the chunk loop: the window from i, the chunk it gives and
\* whether the chunk is kept.
window(text, i) ==
  LET end == Min(i + CHUNK_SIZE, length(text))
      chunk == trim(text, i, end)
  IN  [end |-> end, keep |-> chunk.to - chunk.from > 50, chunk |-> chunk]

\* processFile has the text of a file. A text that is empty or all white
\* space gives no chunk and the loop is not entered.
ChunkBegin ==
  /\ ckPc = "none"
  /\ \E text \in Texts :
       /\ ckText' = text
       /\ ckPc' = IF trim(text, 0, length(text)).to = trim(text, 0, length(text)).from
                  THEN "done" ELSE "loop"
  /\ ckI' = 0
  /\ ckEnd' = 0
  /\ ckChunks' = <<>>
  /\ UNCHANGED <<ixVars, rtVars, walkVars>>

\* for (let i = 0; i < text.length; i += CHUNK_SIZE - CHUNK_OVERLAP)
ChunkStep ==
  /\ ckPc = "loop"
  /\ IF ckI < length(ckText)
     THEN LET w == window(ckText, ckI)
          IN  /\ ckChunks' = IF w.keep THEN Append(ckChunks, w.chunk) ELSE ckChunks
              /\ ckEnd' = w.end
              /\ ckPc' = IF w.end >= length(ckText) THEN "done" ELSE "loop"
              /\ ckI' = IF w.end >= length(ckText) THEN ckI
                        ELSE ckI + CHUNK_SIZE - CHUNK_OVERLAP
     ELSE /\ ckPc' = "done"
          /\ UNCHANGED <<ckChunks, ckEnd, ckI>>
  /\ UNCHANGED <<ckText, ixVars, rtVars, walkVars>>

NextChunk == ChunkBegin \/ ChunkStep

SpecChunk == InitSingle /\ [][NextChunk]_vars

\* ================================================================ claims

\* C1: at most one runIndexing control flow is active in the worker at any
\* time (a start that arrives while an earlier run has not finished starts
\* no second flow).
C1_AtMostOneRun == Cardinality(ActiveRuns) <= 1

\* C2: a control request made in a phase where it is not allowed is answered
\* ok:false, sends nothing to the worker and leaves STATE.indexer as it was.
AllowedIn(req, phase) ==
  CASE req = "start" -> phase = "idle"
    [] req = "pause" -> phase = "embedding"
    [] req = "resume" -> phase = "paused"
    [] req = "stop" -> phase # "idle"
    [] OTHER -> TRUE
C2_RejectedRequest ==
  [][(reply'.req # "none" /\ ~AllowedIn(reply'.req, srvState))
       => /\ ~reply'.ok
          /\ toWorker' = toWorker
          /\ srvState' = srvState
          /\ indexerWorker' = indexerWorker]_vars
\* A pause is refused while the server still reports scanning, with a worker
\* that would have taken the command.
C2_Witness ==
  /\ reply = [req |-> "pause", ok |-> FALSE]
  /\ srvState = "scanning"
  /\ indexerWorker

\* C3: the reported phase only changes along idle -> scanning -> embedding
\* <-> paused -> idle (an error or a stop also leads from scanning to idle).
PhaseSteps ==
  { <<"idle", "scanning">>, <<"scanning", "embedding">>, <<"embedding", "paused">>,
    <<"paused", "embedding">>, <<"embedding", "idle">>, <<"paused", "idle">>,
    <<"scanning", "idle">> }
C3_PhaseMachine ==
  [][srvState' # srvState => <<srvState, srvState'>> \in PhaseSteps]_vars

\* C4: a run that was paused and resumed, received no stop and returned has
\* called processFile exactly once for every queued file.
C4_EveryFileOnce ==
  \A r \in Runs :
    (runs[r].pc = "done" /\ ~runs[r].stopped /\ runs[r].resumed)
      => \A f \in Files : runs[r].handled[f] = 1

\* C5: once the worker has received stop, a flow that was active then begins
\* no further file.
C5_NoFileAfterStop ==
  [][\A r \in Runs :
       runs[r].stopped => \A f \in Files : runs'[r].handled[f] <= runs[r].handled[f]]_vars

\* C6 as claimed: no embedBatch request is issued for a chunk that was waiting
\* in the pending buffer when stop was received.
C6_NoEmbedAfterStop ==
  [][\A r \in Runs :
       (runs'[r].batch # <<>> /\ runs'[r].batch # runs[r].batch)
         => Range(runs'[r].batch) \cap stopBuf = {}]_vars
\* C6 as amended: a stopped run goes through the final flush like a completed
\* one; it leaves the loop for the snapshot or the tail only with the pending
\* buffer drained.
C6_StoppedRunDrainsBuffer ==
  [][\A r \in Runs :
       (/\ runs[r].stopped
        /\ runs[r].pc \in Active \ {"mkdir", "write"}
        /\ runs'[r].pc \in {"mkdir", "done"})
         => embeddingBuffer' = <<>>]_vars
\* A chunk that was waiting at the stop has been embedded, stored and counted.
C6_Witness ==
  /\ \E i \in 1..Len(embeddingsStore) : Chunk(embeddingsStore[i]) \in stopBuf
  /\ State.chunksEmbedded > 0
  /\ \E r \in Runs : runs[r].stopped /\ runs[r].pc = "done"

\* The records of run r that were in the accumulator when it received stop.
AtStop(r) ==
  { embeddingsStore[i] : i \in { j \in 1..Min(runs[r].storeAtStop, Len(embeddingsStore)) :
                                   embeddingsStore[j].run = r } }
\* C7: every record a stopped run had accumulated before the stop is in the
\* snapshot file that run wrote (a run whose write failed, and which reported
\* the failure, aside).
C7_StopSnapshotsAll ==
  \A r \in Runs :
    (runs[r].pc = "done" /\ runs[r].stopped /\ ~runs[r].saveFailed)
      => AtStop(r) \subseteq Range(snapshots[r])

\* C8: the worker turns idle only after the flush, the snapshot and the
\* termination of the embedding process, that is, not while a flow has these
\* steps before it; and no snapshot is taken while chunks of the run are still
\* buffered.
C8_IdleComesLast ==
  /\ \A r \in Runs : runs[r].pc \in Active => State.running
  /\ \A r \in Runs :
       runs[r].pc \in {"mkdir", "write"}
         => \A i \in 1..Len(embeddingBuffer) : embeddingBuffer[i].run # r

\* C9: a run that ended in the catch block, with records in the accumulator,
\* has attempted a snapshot.
C9_SnapshotOnError ==
  \A r \in Runs :
    (runs[r].pc = "failed" /\ embeddingsStore # <<>>)
      => (snapshots[r] # <<>> \/ runs[r].saveFailed)

\* C10: whenever the server reports a phase other than idle, it reports idle
\* later, given that the worker and the pipes keep taking their steps and that
\* a pause is followed by a resume or a stop.
C10_EventuallyIdle == (srvState # "idle") ~> (srvState = "idle")

\* C11: once every run has ended and no command or report is in flight, the
\* reported phase is idle and stays so until the next start.
C11_FrozenAtIdle ==
  (indexerWorker /\ starts > 0 /\ ActiveRuns = {} /\ toWorker = <<>> /\ toServer = <<>>)
    => srvState = "idle"

RECURSIVE Sum(_)
Sum(s) == IF s = <<>> THEN 0 ELSE Head(s) + Sum(Tail(s))

\* C12: a run whose embedding process never became ready, whose selection
\* compiles, and which was neither stopped nor paused, returns with every queued file processed, all
\* chunks generated and counted, none embedded, the worker idle, complete
\* reported and no error.
C12_DisabledModeCompletes ==
  [][\A r \in Runs :
       (/\ runs[r].pc \in Active /\ runs'[r].pc \in {"done", "failed"}
        /\ runs'[r].initFailed /\ ~runs'[r].stopped /\ ~runs'[r].pausedSeen
        /\ ~runs'[r].badRule)
         => /\ runs'[r].pc = "done" /\ ~runs'[r].saveFailed
            /\ State'.filesProcessed = State'.filesQueued
            /\ State'.chunksGenerated = Sum(ChunksOf)
            /\ State'.chunksEmbedded = 0
            /\ ~State'.running
            /\ \E i \in 1..Len(toServer') : toServer'[i].type = "complete"
            /\ toServer'[Len(toServer')] = [type |-> "stats", state |-> "idle"]]_vars

\* The embedChunks call of flow r settles in this step.
Settles(r) ==
  /\ runs[r].pc \in {"embed", "flushEmbed"}
  /\ runs'[r].pc # "dead"
  /\ runs'[r].batch # runs[r].batch

\* C13: when an embedChunks call is rejected, its batch is dropped (nothing of
\* it is stored or buffered again), chunksEmbedded stays, no error is
\* reported and the flow goes on; and chunksEmbedded only ever advances when a
\* pending call receives the answer to its own request.
C13_FailedBatchDropped ==
  [][/\ \A r \in Runs :
          (Settles(r) /\ runs'[r].lastEmbed = "rejected")
            => /\ embeddingsStore' = embeddingsStore
               /\ State'.chunksEmbedded = State.chunksEmbedded
               /\ Range(runs[r].batch) \cap Range(embeddingBuffer') = {}
               /\ \A i \in 1..Len(toServer') :
                    toServer'[i].type = "error" => i <= Len(toServer)
               /\ runs'[r].pc \in Active \cup {"done"}
     /\ State'.chunksEmbedded > State.chunksEmbedded
          => \E q \in Runs : /\ procQ[q] # <<>>
                              /\ \E r \in Listeners(q) : runs[r].batch = Head(procQ[q])]_vars

\* C14: an embedChunks call that resolves has stored exactly one record per
\* chunk of its batch, each with the vector computed from that chunk.
C14_WholeBatchOrNothing ==
  [][\A r \in Runs :
       (Settles(r) /\ runs'[r].lastEmbed = "resolved")
         => LET b == runs[r].batch
                n == Len(embeddingsStore)
            IN  /\ Len(embeddingsStore') = n + Len(b)
                /\ \A i \in 1..Len(b) :
                     /\ Chunk(embeddingsStore'[n + i]) = b[i]
                     /\ embeddingsStore'[n + i].vec = b[i]]_vars

\* C15: an embedding process never holds more than one unanswered request.
C15_OneOutstanding == \A p \in Runs : Len(procQ[p]) <= 1

\* C16: the snapshot file a run writes holds only records that run produced.
C16_SnapshotOfOwnRun ==
  \A r \in Runs : \A i \in 1..Len(snapshots[r]) : snapshots[r][i].run = r

\* No two records of s have the same (filePath, chunkIndex).
UniqueKeys(s) ==
  \A i, j \in 1..Len(s) :
    (s[i].filePath = s[j].filePath /\ s[i].chunkIndex = s[j].chunkIndex) => i = j

\* C17: the key (filePath, chunkIndex) is unique in the accumulator and in
\* every snapshot written.
C17_UniqueKey ==
  /\ UniqueKeys(embeddingsStore)
  /\ \A r \in Runs : UniqueKeys(snapshots[r])

\* The newest file of dir that is complete, as an index; none if there is none.
LatestComplete(dir) ==
  LET ok == {i \in 1..Len(dir) : ~dir[i].torn}
  IN  IF ok = {} THEN Null
      ELSE Loaded(dir[CHOOSE i \in ok : \A j \in ok : j <= i].embeddings)

\* C18: loading the latest index never yields a torn file and never yields
\* "no index" while a complete snapshot exists: what is loaded is the newest
\* complete snapshot.
C18_LoadsNewestComplete ==
  lastOp = "load" => indexData = LatestComplete(indexDir)

\* C19: a search is answered from the snapshot whose file name is the
\* greatest in the index directory at the time of the query.
C19_SearchUsesLatest ==
  lastOp = "search" => response = search(loadLatestIndex(indexDir), request)

\* C20: a search result has at most topK entries, every score is at least
\* minScore, and the scores never increase along the result.
C20_TopKMinScoreSorted ==
  (lastOp = "search" /\ response.status = 200) =>
    LET c == response.chunks
        minScore == IF request.minScore = <<>> THEN DEFAULT_MINSCORE ELSE request.minScore[1]
    IN  /\ Len(c) <= request.topK
        /\ \A i \in 1..Len(c) : c[i].score >= minScore
        /\ \A i, j \in 1..Len(c) : i < j => c[i].score >= c[j].score

\* C21: a search with topK = 0 yields an empty result, for any query, mode
\* and snapshot.
C21_TopKZeroEmpty ==
  (lastOp = "search" /\ request.topK = 0) => response.chunks = <<>>

\* The result of a search that was answered with chunks.
Answered == lastOp = "search" /\ response.status = 200 /\ response.error = ""

\* C22: in hybrid mode the result is the one obtained by scoring every record
\* of the snapshot with 0.7 x semantic + 0.3 x keyword, then filtering by
\* minScore, sorting and truncating (scores compared in thousandths).
C22_HybridWeighted ==
  (Answered /\ request.mode = "hybrid" /\ request.topK >= 1) =>
    [i \in 1..Len(response.chunks) |->
       [response.chunks[i] EXCEPT !.score = 10 * @]]
      = hybridSearch(indexData,
                     IF request.query = <<>> THEN <<>> ELSE QueryVec(request.query),
                     request.query, request.topK, minScoreOf(request))

\* The record of the loaded index with the given chunk id, and its place.
PosOf(id) == CHOOSE k \in 1..Len(indexData.embeddings) : chunkId(indexData.embeddings[k]) = id

\* The fraction (in hundredths) of the words of the query that occur in the
\* text, case ignored.
TermFraction(text, query) ==
  (Cardinality({i \in 1..Len(query) :
                  toLowerCase(query)[i] \in Range(toLowerCase(text))}) * Scale)
    \div Len(query)

\* C23: in a keyword search the score of every returned chunk is the fraction
\* of the whitespace-delimited query terms that occur in the chunk's text.
C23_KeywordFraction ==
  (Answered /\ request.mode = "keyword" /\ request.query # <<>>) =>
    \A i \in 1..Len(response.chunks) :
      response.chunks[i].score
        = TermFraction(indexData.embeddings[PosOf(response.chunks[i].chunkId)].text,
                       request.query)

\* C24: a semantic search whose query embedding cannot be obtained returns
\* the keyword results.
C24_SemanticDegrades ==
  (/\ lastOp = "search" /\ request.mode = "semantic" /\ request.query # <<>>
   /\ ~request.embed /\ indexData.loaded /\ request.topK >= 1)
    => response = Ok(keywordSearch(indexData, request.query, request.topK,
                                   minScoreOf(request)))

\* C25: with no index loaded a search is answered with an empty chunk list
\* and the error value "No index loaded".
C25_NoIndexLoaded ==
  (lastOp = "search" /\ (~indexData.loaded \/ indexData.embeddings = <<>>))
    => response = [status |-> 200, chunks |-> <<>>, error |-> "No index loaded"]

\* A search was made against a directory that holds a snapshot the server has
\* not loaded, and it was answered with "No index loaded".
C25_Witness ==
  /\ lastOp = "search" /\ ~indexData.loaded /\ indexDir # <<>>
  /\ request.mode = "semantic" /\ request.topK = 2
  /\ response.error = "No index loaded"

\* C27: results of equal score appear in the order of their records in the
\* snapshot.
C27_TiesInSnapshotOrder ==
  Answered =>
    \A i, j \in 1..Len(response.chunks) :
      (i < j /\ response.chunks[i].score = response.chunks[j].score)
        => PosOf(response.chunks[i].chunkId) < PosOf(response.chunks[j].chunkId)

\* The ids of the reasoning request that name a record of the loaded index.
KnownIds ==
  SelectSeq(request.chunkIds,
            LAMBDA id : \E k \in 1..Len(indexData.embeddings) :
                          chunkId(indexData.embeddings[k]) = id)

\* C26: in a reasoning request against a loaded index the ids that match no
\* record are left out of what is sent to the reasoning service; if none
\* remain the request is answered normally with empty citations and the
\* service is not called.
C26_UnknownIdsFiltered ==
  (lastOp = "reason" /\ indexData.loaded) =>
    /\ response.called =>
          [i \in 1..Len(response.sent) |-> response.sent[i].chunkId] = KnownIds
    /\ KnownIds = <<>> =>
          /\ response.status = 200
          /\ response.citations = <<>>
          /\ ~response.called

\* A reasoning request whose ids are all unknown was answered.
C26_Witness ==
  /\ lastOp = "reason" /\ indexData.loaded
  /\ request.chunkIds # <<>> /\ KnownIds = <<>>
  /\ response.status = 200 /\ ~response.called

\* Some exclude rule of the selection matches the path.
Excluded(path, selection) ==
  \E i \in 1..Len(selection.exclude) : matchesGlob(path, FALSE, selection.exclude[i])

\* The paths of a file system: its files and its directories.
AllPaths(fs) ==
  UNION {{SubSeq(fs[i].path, 1, n) : n \in 1..Len(fs[i].path)} : i \in 1..Len(fs)}

\* C28: a path that an exclude pattern matches is not selected, whatever
\* include patterns match it, and the walk yields no file that an exclude
\* pattern matches.
C28_ExcludeDominance ==
  /\ \A p \in AllPaths(Tree) : Excluded(p, walkSel) => ~selected(p, walkSel)
  /\ \A i \in 1..Len(walkFiles) : ~Excluded(walkFiles[i], walkSel)

\* A walk has ended that yielded files and left out an indexable file which
\* the include rules match and an exclude rule matches as well.
C28_Witness ==
  /\ walkPc = "done" /\ walkFiles # <<>>
  /\ \E i \in 1..Len(Tree) :
       /\ Excluded(Tree[i].path, walkSel)
       /\ \E k \in 1..Len(walkSel.include) :
            matchesGlob(Tree[i].path, FALSE, walkSel.include[k])
       /\ Tree[i].path \notin Range(walkFiles)

\* An exclude rule without wildcard names the directory or one above it.
NamedByExclude(dir, selection) ==
  \E i \in 1..Len(selection.exclude) :
    /\ selection.exclude[i].kind = "prefix"
    /\ IsPrefix(toLowerCase(selection.exclude[i].path), toLowerCase(dir))

\* C29: a directory whose own path is excluded by the rules is never entered
\* by the walk.
C29_ExcludedDirNotEntered ==
  \A d \in walkEntered : ~NamedByExclude(d, walkSel)

\* C30: with include /data and exclude /data/tmp over a.txt (400 characters)
\* and tmp/b.txt, a run that completes has filesQueued = 1, chunksGenerated = 1
\* and chunksEmbedded = 1.
C30_ScenarioCounts ==
  [][\A r \in Runs :
       (/\ budget = Scenario30
        /\ runs[r].pc \in Active /\ runs'[r].pc = "done"
        /\ ~runs'[r].stopped /\ \A q \in Runs : ~runs'[q].badRule)
         => /\ State'.filesQueued = 1
            /\ State'.chunksGenerated = 1
            /\ State'.chunksEmbedded = 1]_vars

Handled(S) == S.filesProcessed + S.filesFailed
PhaseChange ==
  \/ State'.running # State.running
  \/ State'.paused # State.paused
  \/ \E r \in Runs : /\ runs[r].pc # runs'[r].pc
                      /\ \/ runs[r].pc = "collect"
                         \/ runs'[r].pc \in {"done", "failed"}
AtCadence == Handled(State') = 1 \/ (Handled(State') > 0 /\ Handled(State') % 50 = 0)
C32_UpdatesOnlyOnCadence ==
  [][\A i \in (Len(toServer) + 1)..Len(toServer') :
       toServer'[i].type = "stats" => PhaseChange \/ AtCadence]_vars

\* C33: when a file starts processing (processFile is called for it) the
\* pending buffer holds fewer than BATCH_SIZE chunks.
C33_BufferBelowBatchAtFileStart ==
  [][\A r \in Runs :
       runs'[r].handled # runs[r].handled => Len(embeddingBuffer') < BATCH_SIZE]_vars

\* C34: a run that was not stopped emits exactly one terminal event, complete
\* or error, by the time it returns: not both and not neither.
Terminal(out, from) ==
  {i \in (from + 1)..Len(out) : out[i].type \in {"complete", "error"}}
C34_OneTerminalEvent ==
  [][\A r \in Runs :
       (/\ runs[r].pc \in Active
        /\ runs'[r].pc \in {"done", "failed"}
        /\ ~runs'[r].stopped)
         => Cardinality(Terminal(toServer', Len(toServer))) = 1]_vars

\* C35: a file whose text cannot be read or that yields no text is counted as
\* processed with zero chunks: filesProcessed and bytesProcessed advance,
\* filesFailed and chunksGenerated do not, nothing is buffered, and the run
\* goes on with the next file.
FileHandled(r) ==
  /\ runs[r].pc = "file"
  /\ runs'[r].pc # "dead"
  /\ runs'[r].idx # runs[r].idx \/ runs'[r].pc # "file"
C35_NoTextIsProcessed ==
  [][\A r \in Runs :
       (FileHandled(r) /\ runs'[r].lastFile = "noText")
         => /\ State'.filesProcessed = State.filesProcessed + 1
            /\ State'.bytesProcessed = State.bytesProcessed + statSize(runs[r].idx)
            /\ State'.filesFailed = State.filesFailed
            /\ State'.chunksGenerated = State.chunksGenerated
            /\ Range(embeddingBuffer') \subseteq Range(embeddingBuffer)
            /\ runs'[r].pc # "failed"
            /\ (State.running /\ ~State.paused /\ runs[r].idx < Len(ChunksOf))
                 => (runs'[r].pc = "file" /\ runs'[r].idx = runs[r].idx + 1)]_vars

\* A run whose first file could not be read is at its second file.
C35_Witness ==
  \E r \in Runs : /\ runs[r].pc = "file" /\ runs[r].idx = 2
                  /\ runs[r].lastFile = "noText"
                  /\ State.filesProcessed = 1 /\ State.chunksGenerated = 0

\* C36: every record of the accumulator holds the vector that was computed
\* from the text of its own chunk.
C36_VectorOfOwnChunk ==
  \A i \in 1..Len(embeddingsStore) :
    embeddingsStore[i].vec = Chunk(embeddingsStore[i])

\* C37: once the walk has finished, filesProcessed + filesFailed <= filesQueued;
\* and handling one queued file increases exactly one of filesProcessed and
\* filesFailed, by exactly 1.
WalkFinished == \A r \in Runs : runs[r].pc \notin {"init", "collect"}
C37_HandledWithinQueued == WalkFinished => Handled(State) <= State.filesQueued

\* C37, second half: the step that handles a file adds 1 to exactly one of
\* the two counters.
C37_OneCounterPerFile ==
  [][\A r \in Runs :
       FileHandled(r)
         => \/ /\ State'.filesProcessed = State.filesProcessed + 1
               /\ State'.filesFailed = State.filesFailed
            \/ /\ State'.filesFailed = State.filesFailed + 1
               /\ State'.filesProcessed = State.filesProcessed]_vars

\* C38: embeddingsPending equals the number of chunks waiting to be embedded
\* (those in the pending buffer and those of a batch whose embedChunks call is
\* awaited), and it is 0 when no run is active.
InFlight(r) == IF runs[r].pc \in {"embed", "flushEmbed"} THEN Len(runs[r].batch) ELSE 0
C38_PendingIsBufferLength ==
  /\ State.embeddingsPending = Len(embeddingBuffer) + Sum([r \in Runs |-> InFlight(r)])
  /\ ActiveRuns = {} => State.embeddingsPending = 0

\* C39: chunksEmbedded equals the number of records the current run has
\* appended to the accumulator, and chunksEmbedded <= chunksGenerated.
AppendedBy(r) == Cardinality({i \in 1..Len(embeddingsStore) : embeddingsStore[i].run = r})
C39_EmbeddedCountsRecords ==
  /\ \A r \in Runs :
       (runs[r].pc \in Active /\ ActiveRuns = {r})
         => State.chunksEmbedded = AppendedBy(r)
  /\ State.chunksEmbedded <= State.chunksGenerated

\* C40: every record of the accumulator and of a snapshot carries a vector;
\* and a run that stored no record has written no snapshot (the snapshot a
\* run wrote holds a record that run stored).
C40_OnlyEmbeddedInSnapshots ==
  /\ \A i \in 1..Len(embeddingsStore) : "vec" \in DOMAIN embeddingsStore[i]
  /\ \A r \in Runs :
       /\ \A i \in 1..Len(snapshots[r]) : "vec" \in DOMAIN snapshots[r][i]
       /\ snapshots[r] # <<>> => \E i \in 1..Len(snapshots[r]) : snapshots[r][i].run = r

====
